---- MODULE Spec2Model ----
(***************************************************************************)
(* Model of request_logger_mw/middleware.go: the request/response logging  *)
(* middleware.  A RequestLoggerMiddleware holds the base options; a        *)
(* RequestLoggerWrapper derived by NewWrapper holds a pointer to the base  *)
(* options and a pointer to its own (override or synthesized) options; the *)
(* handler produced by Wrap logs a request record, calls the downstream    *)
(* handler and logs a response record.                                     *)
(***************************************************************************)
EXTENDS Integers, Sequences, FiniteSets, TLC

VARIABLES
    base,      \* *RequestLoggerMiddleware.opts: the base options object
    wrapper,   \* the wrapper last returned by NewWrapper, with the options object it points to
    built,     \* that wrapper's options object as it was when NewWrapper returned (history)
    pc,        \* per request: position inside the handler returned by Wrap
    entry,     \* per request: the request as it arrived (history, never written after arrival)
    req,       \* per request: the live *http.Request (method, route, URL, header)
    resp,      \* per request: the live response writer (status, header, written bytes)
    wrote,     \* per request: the response as the downstream handler produced it (history)
    body,      \* per request: local variable body of the Wrap closure
    log_info,  \* per request: local variable log_info of the Wrap closure
    trace,     \* per request: the calls made so far (BodyCopy, LogDebug, next)
    panicv     \* per request: the panic that ended the request, if any

vars == <<base, wrapper, built, pc, entry, req, resp, wrote, body, log_info, trace, panicv>>

----------------------------------------------------------------------------
(* Bounds of the model *)

\* longest request or response body, in bytes
MaxBody == 2
\* longest variadic argument list given to NewWrapper
MaxArgs == 1
\* requests that may be in flight through the wrapper at once
NumWorkers == 2

Workers == 1..NumWorkers
\* workers that take requests under Spec (one request at a time)
Sequential == {1}

\* request bodies: one of every length up to MaxBody, its bytes alternating
Bodies == {[i \in 1..n |-> 1 + ((i + 1) % 2)] : n \in 0..MaxBody}

----------------------------------------------------------------------------
(* Values *)

\* a nil interface or pointer
Nil == "nil"
\* logger.DefaultStdoutCtxLogger()
DefaultStdout == "stdout"
\* loggers a caller may put in an options object or give to SetLogger
CallerLoggers == {"L1"}
SetLoggers == {"L2"}

\* a LogBodyFilter: drop the first byte, or overwrite every byte with 0
ApplyBodyFilter(f, b) ==
    IF f = "dropFirst" THEN (IF b = <<>> THEN b ELSE Tail(b))
    ELSE [i \in DOMAIN b |-> 0]

\* a LogHeadersFilter.  "strip" drops the first value of every key and deletes
\* the keys left without a value (so it deletes single-valued keys such as
\* Authorization and rewrites the others); "mask" overwrites every value.
ApplyHeadersFilter(f, h) ==
    IF f = "strip"
    THEN [k \in {x \in DOMAIN h : Len(h[x]) > 1} |-> Tail(h[k])]
    ELSE [k \in DOMAIN h |-> [i \in DOMAIN h[k] |-> "***"]]

\* RequestLoggerOpts{}
EmptyOpts ==
    [LogBodyFilter |-> Nil, LogHeadersFilter |-> Nil, Logger |-> Nil, Disable |-> FALSE]

\* options objects handed to NewMiddleware: base filters, optional logger, Disable
BaseOptsInputs ==
    [LogBodyFilter : {Nil, "mask"}, LogHeadersFilter : {Nil, "mask"},
     Logger : {Nil} \cup CallerLoggers, Disable : BOOLEAN]

\* options objects handed to NewWrapper as an override
OverrideInputs ==
    [LogBodyFilter : {Nil, "dropFirst"}, LogHeadersFilter : {Nil, "strip"},
     Logger : {Nil} \cup CallerLoggers, Disable : BOOLEAN]

\* the argument of NewMiddleware: a nil pointer or a pointer to an options object
MwArgs == {[kind |-> "nilptr"]} \cup {[kind |-> "opts", opts |-> o] : o \in BaseOptsInputs}

\* one variadic argument of NewWrapper: a value of another type, a nil
\* *RequestLoggerOpts, or a pointer to an options object
WrapperArgs ==
    {[kind |-> "other"], [kind |-> "nilptr"]}
        \cup {[kind |-> "opts", opts |-> o] : o \in OverrideInputs}

ArgLists == UNION {[1..n -> WrapperArgs] : n \in 0..MaxArgs}

----------------------------------------------------------------------------
(* Construction: NewMiddleware, NewWrapper, SetLogger *)

\* NewMiddleware(opts): a nil opts becomes an empty options object, and a nil
\* Logger becomes the default stdout logger
NewMiddleware(arg) ==
    LET opts == IF arg.kind = "nilptr" THEN EmptyOpts ELSE arg.opts
    IN  IF opts.Logger = Nil THEN [opts EXCEPT !.Logger = DefaultStdout] ELSE opts

\* the loop of NewWrapper over its variadic arguments: opt is the result of the
\* type assertion on the first argument that is a *RequestLoggerOpts (a nil
\* pointer of that type included), and nil when there is none
RECURSIVE FirstOpts(_, _)
FirstOpts(args, i) ==
    IF i > Len(args) THEN [kind |-> "nilptr"]
    ELSE IF args[i].kind \in {"nilptr", "opts"} THEN args[i]
    ELSE FirstOpts(args, i + 1)

\* what NewWrapper returns when it returns nil, and the state before any call
NilWrapper == [kind |-> "nil", opts |-> EmptyOpts, own |-> FALSE]
NoWrapper == [kind |-> "none", opts |-> EmptyOpts, own |-> FALSE]

\* lines 47-61 of NewWrapper on a middleware whose options are b: the resolved
\* options are the caller's object, or a fresh object carrying only the base
\* logger (synth: no caller holds a pointer to it)
ResolveOpt(b, args) ==
    LET found == FirstOpts(args, 1)
        synth == found.kind = "nilptr"
    IN  [synth |-> synth,
         opt |-> IF synth THEN [EmptyOpts EXCEPT !.Logger = b.Logger] ELSE found.opts]

\* NewWrapper(ctx, opts...): nil when the resolved options are disabled, else a
\* wrapper whose base_opts is the pointer to the middleware's options (the
\* variable base) and whose opts is the resolved object
NewWrapperFn(b, args) ==
    LET res == ResolveOpt(b, args)
    IN  IF res.opt.Disable THEN NilWrapper
        ELSE [kind |-> "wrapper", opts |-> res.opt, own |-> res.synth]

\* the options object NewWrapper resolved, as it is when NewWrapper returns,
\* and the logger line 59 copied into it from the middleware's options when no
\* override was passed; nothing is kept of a call that returned nil
NoBuilt == [opts |-> EmptyOpts, inherited |-> Nil]
Built(b, args) ==
    LET res == ResolveOpt(b, args)
    IN  IF NewWrapperFn(b, args) = NilWrapper THEN NoBuilt
        ELSE [opts |-> res.opt, inherited |-> IF res.synth THEN b.Logger ELSE Nil]

----------------------------------------------------------------------------
(* Requests, responses and what the downstream handler may do *)

\* net/url: URL.EscapedPath() returns RawPath when it is set (a valid encoding
\* of Path) and the escaped Path otherwise
PathEscape(p) == IF p = "/a b" THEN "/a%20b" ELSE p
EscapedPath(u) == IF u.RawPath # "" THEN u.RawPath ELSE PathEscape(u.Path)

\* net/url: URL.Query() parses RawQuery (here the sequence of its key=value
\* pairs) into a multimap, values in order of appearance
RECURSIVE ValuesOf(_, _)
ValuesOf(pairs, k) ==
    IF pairs = <<>> THEN <<>>
    ELSE (IF Head(pairs)[1] = k THEN <<Head(pairs)[2]>> ELSE <<>>) \o ValuesOf(Tail(pairs), k)
Query(u) ==
    [k \in {u.RawQuery[i][1] : i \in DOMAIN u.RawQuery} |-> ValuesOf(u.RawQuery, k)]

\* inbound requests: method, route pattern, URL and headers
Requests ==
    { [Method |-> "GET", Route |-> "/users/:id",
       URL |-> [Path |-> "/users/42", RawPath |-> "",
                RawQuery |-> << <<"active", "true">>, <<"tag", "a">>, <<"tag", "b">> >>],
       Header |-> ("Authorization" :> <<"Bearer xyz">>) @@ ("Accept" :> <<"json", "xml">>)],
      [Method |-> "POST", Route |-> "/files/*path",
       URL |-> [Path |-> "/a b", RawPath |-> "", RawQuery |-> <<>>],
       Header |-> ("Content-Type" :> <<"text", "utf8", "x">>)] }

\* errors BodyCopy may return
BodyErrors == {"unexpected EOF"}

\* the response writer before anything is written
NoResp == [Status |-> 0, Header |-> <<>>, Body |-> <<>>]

\* what a downstream handler may write
Responses ==
    { [Status |-> 404, Header |-> ("Content-Type" :> <<"json", "utf8">>),
       Body |-> [i \in 1..MaxBody |-> 1 + (i % 2)]],
      [Status |-> 200, Header |-> ("Set-Cookie" :> <<"a=1">>) @@ ("Vary" :> <<"x", "y", "z">>),
       Body |-> <<>>] }

\* a downstream handler: it may rewrite its request's URL and headers, and it
\* writes a response
Behaviours == [mutate : BOOLEAN, resp : Responses]

HandlerURL(u) == [Path |-> "/rewritten", RawPath |-> "/re%77ritten", RawQuery |-> << <<"x", "1">> >>]
HandlerHeader(h) ==
    ("X-Handler" :> <<"1">>) @@ [k \in DOMAIN h \ {"Authorization"} |-> <<"changed">>]

\* the context a request arrives with
Ctx(r) == <<"ctx", r>>
\* the values a downstream handler panics with
PanicValues == {"handler failed"}

----------------------------------------------------------------------------
(* filterBody and filterHeaders *)

\* a call of a filter function: via names the options object whose field the
\* call goes through, fn is the function that runs
FilterCall(kind, via, fn) == [call |-> kind, via |-> via, fn |-> fn]

\* a filterBody whose second call goes through base_opts, the object it tests
filterBody_BaseSecond(opts, base_opts, b) ==
    LET b1 == IF opts.LogBodyFilter # Nil
              THEN ApplyBodyFilter(opts.LogBodyFilter, b) ELSE b
        c1 == IF opts.LogBodyFilter # Nil
              THEN <<FilterCall("FilterBody", "opts", opts.LogBodyFilter)>> ELSE <<>>
    IN  IF base_opts.LogBodyFilter # Nil
        THEN [panic |-> FALSE, val |-> ApplyBodyFilter(base_opts.LogBodyFilter, b1),
              calls |-> Append(c1, FilterCall("FilterBody", "base_opts",
                                              base_opts.LogBodyFilter))]
        ELSE [panic |-> FALSE, val |-> b1, calls |-> c1]

\* filterBody: the body is already a copy.  The second test reads base_opts but
\* the call goes through opts: with opts.LogBodyFilter nil that is a call on a
\* nil interface, which panics.
filterBody(opts, base_opts, b) ==
    LET c == FilterCall("FilterBody", "opts", opts.LogBodyFilter)
        b1 == IF opts.LogBodyFilter # Nil
              THEN ApplyBodyFilter(opts.LogBodyFilter, b) ELSE b
        c1 == IF opts.LogBodyFilter # Nil THEN <<c>> ELSE <<>>
    IN  IF base_opts.LogBodyFilter # Nil
        THEN IF opts.LogBodyFilter = Nil
             THEN [panic |-> TRUE, val |-> b1, calls |-> c1]
             ELSE [panic |-> FALSE, val |-> ApplyBodyFilter(opts.LogBodyFilter, b1),
                   calls |-> Append(c1, c)]
        ELSE [panic |-> FALSE, val |-> b1, calls |-> c1]

\* the copy loop of filterHeaders: a new map with a new slice for every key
CopyHeader(hdrs) == [k \in DOMAIN hdrs |-> [i \in DOMAIN hdrs[k] |-> hdrs[k][i]]]

\* filterHeaders without the copy loop: the filters work on the live map
filterHeaders_InPlace(opts, base_opts, hdrs) ==
    LET c == FilterCall("FilterHeaders", "opts", opts.LogHeadersFilter)
        h1 == IF opts.LogHeadersFilter # Nil
              THEN ApplyHeadersFilter(opts.LogHeadersFilter, hdrs) ELSE hdrs
        c1 == IF opts.LogHeadersFilter # Nil THEN <<c>> ELSE <<>>
    IN  IF base_opts.LogHeadersFilter # Nil
        THEN IF opts.LogHeadersFilter = Nil
             THEN [panic |-> TRUE, val |-> h1, live |-> h1, calls |-> c1]
             ELSE [panic |-> FALSE, val |-> ApplyHeadersFilter(opts.LogHeadersFilter, h1),
                   live |-> ApplyHeadersFilter(opts.LogHeadersFilter, h1),
                   calls |-> Append(c1, c)]
        ELSE [panic |-> FALSE, val |-> h1, live |-> h1, calls |-> c1]

\* a filterHeaders whose second call goes through base_opts, the object it tests
filterHeaders_BaseSecond(opts, base_opts, hdrs) ==
    LET n_hdrs == CopyHeader(hdrs)
        h1 == IF opts.LogHeadersFilter # Nil
              THEN ApplyHeadersFilter(opts.LogHeadersFilter, n_hdrs) ELSE n_hdrs
        c1 == IF opts.LogHeadersFilter # Nil
              THEN <<FilterCall("FilterHeaders", "opts", opts.LogHeadersFilter)>> ELSE <<>>
    IN  IF base_opts.LogHeadersFilter # Nil
        THEN [panic |-> FALSE, val |-> ApplyHeadersFilter(base_opts.LogHeadersFilter, h1),
              live |-> hdrs,
              calls |-> Append(c1, FilterCall("FilterHeaders", "base_opts",
                                              base_opts.LogHeadersFilter))]
        ELSE [panic |-> FALSE, val |-> h1, live |-> hdrs, calls |-> c1]

\* filterHeaders: val is the map returned, live is the map that was passed in as
\* it is after the call.  A filter works in place on the map it is given; it is
\* given n_hdrs, so the map passed in is left as it was.
filterHeaders(opts, base_opts, hdrs) ==
    LET n_hdrs == CopyHeader(hdrs)
        c == FilterCall("FilterHeaders", "opts", opts.LogHeadersFilter)
        h1 == IF opts.LogHeadersFilter # Nil
              THEN ApplyHeadersFilter(opts.LogHeadersFilter, n_hdrs) ELSE n_hdrs
        c1 == IF opts.LogHeadersFilter # Nil THEN <<c>> ELSE <<>>
    IN  IF base_opts.LogHeadersFilter # Nil
        THEN IF opts.LogHeadersFilter = Nil
             THEN [panic |-> TRUE, val |-> h1, live |-> hdrs, calls |-> c1]
             ELSE [panic |-> FALSE, val |-> ApplyHeadersFilter(opts.LogHeadersFilter, h1),
                   live |-> hdrs, calls |-> Append(c1, c)]
        ELSE [panic |-> FALSE, val |-> h1, live |-> hdrs, calls |-> c1]

----------------------------------------------------------------------------
(* State *)

NoReq ==
    [Method |-> "", Route |-> "", URL |-> [Path |-> "", RawPath |-> "", RawQuery |-> <<>>],
     Header |-> <<>>]
NoEntry == NoReq @@ [Body |-> <<>>]
NoPanic == [kind |-> "none"]

Quiescent == \A r \in Workers : pc[r] = "idle"

\* the LogDebug calls a request has made, in order
LogCalls(r) == SelectSeq(trace[r], LAMBDA e : e.call = "LogDebug")
\* how many calls of one kind a request has made
Count(r, c) == Len(SelectSeq(trace[r], LAMBDA e : e.call = c))
\* the LogDebug calls with one prefix
WithPrefix(r, p) == SelectSeq(LogCalls(r), LAMBDA e : e.prefix = p)

\* what json.Encoder.Encode returns: nil or an error
EncodeErrors == {"json: unsupported value"}
EncodeOutcomes == {Nil} \cup EncodeErrors
\* the text of a buffer nothing was written to
NoText == <<>>

\* json.Encoder.Encode(log_info) into buf, then strings.TrimSpace(buf.String()):
\* the text is represented by the document it encodes, as it is at this moment.
\* Encode writes to buf only after the whole value was marshalled, so when it
\* returns an error the buffer, new or just Reset, holds no text.  The code
\* drops the value Encode returns.
Encode(info, err) == IF err = Nil THEN info ELSE NoText

\* a call of encoder.Encode and what it returned
EncodeCall(err) == [call |-> "Encode", err |-> err]

\* log calls that go to the logger the base configuration has at request time
Sink_Base(r) == base.Logger

\* self.opts.Logger of lines 156 and 174: the sink of the log calls of r
Sink(r) == wrapper.opts.Logger

\* a LogDebug call that reaches the sink twice
LogDebug_Twice(tr, logger, ctx, prefix, text) ==
    LET e == [call |-> "LogDebug", logger |-> logger, ctx |-> ctx,
              prefix |-> prefix, msg |-> text]
    IN  Append(Append(tr, e), e)

\* a log call that is left out when nothing was encoded
LogDebug_SkipEmpty(tr, logger, ctx, prefix, text) ==
    IF text = NoText
    THEN tr
    ELSE Append(tr, [call |-> "LogDebug", logger |-> logger, ctx |-> ctx,
                     prefix |-> prefix, msg |-> text])

\* self.opts.Logger.LogDebug(ctx, prefix, text): one call on the sink
LogDebug(tr, logger, ctx, prefix, text) ==
    Append(tr, [call |-> "LogDebug", logger |-> logger, ctx |-> ctx,
                prefix |-> prefix, msg |-> text])

Init ==
    /\ \E a \in MwArgs : base = NewMiddleware(a)
    /\ wrapper = NoWrapper
    /\ built = NoBuilt
    /\ pc = [r \in Workers |-> "idle"]
    /\ entry = [r \in Workers |-> NoEntry]
    /\ req = [r \in Workers |-> NoReq]
    /\ resp = [r \in Workers |-> NoResp]
    /\ wrote = [r \in Workers |-> NoResp]
    /\ body = [r \in Workers |-> <<>>]
    /\ log_info = [r \in Workers |-> <<>>]
    /\ trace = [r \in Workers |-> <<>>]
    /\ panicv = [r \in Workers |-> NoPanic]

----------------------------------------------------------------------------
(* Configuration actions.  The options objects are written only while no     *)
(* request is in flight: a write concurrent with a request would be a data   *)
(* race on the shared object.                                                *)

\* the caller derives a wrapper and routes the following requests through it
NewWrapper(args) ==
    /\ Quiescent
    /\ wrapper' = NewWrapperFn(base, args)
    /\ built' = Built(base, args)
    /\ UNCHANGED <<base, pc, entry, req, resp, wrote, body, log_info, trace, panicv>>

\* RequestLoggerMiddleware.SetLogger
SetLogger(l) ==
    /\ Quiescent
    /\ base' = [base EXCEPT !.Logger = l]
    /\ UNCHANGED <<wrapper, built, pc, entry, req, resp, wrote, body, log_info, trace, panicv>>

\* the caller writes one field of the options object it passed to NewWrapper;
\* the wrapper holds a pointer to that same object.  One write after each
\* NewWrapper reaches every value the object can have.
MutateOverride(o) ==
    /\ Quiescent
    /\ wrapper.kind = "wrapper" /\ ~wrapper.own
    /\ wrapper.opts = built.opts
    /\ Cardinality({f \in DOMAIN o : o[f] # wrapper.opts[f]}) = 1
    /\ wrapper' = [wrapper EXCEPT !.opts = o]
    /\ UNCHANGED <<base, built, pc, entry, req, resp, wrote, body, log_info, trace, panicv>>

----------------------------------------------------------------------------
(* The handler returned by Wrap, one request at a time per worker *)

\* a request arrives at the wrapped handler
StartRequest(r, rq, b) ==
    /\ pc[r] = "idle"
    /\ wrapper.kind = "wrapper"
    /\ pc' = [pc EXCEPT ![r] = "enter"]
    /\ entry' = [entry EXCEPT ![r] = rq @@ [Body |-> b]]
    /\ req' = [req EXCEPT ![r] = rq]
    /\ UNCHANGED <<base, wrapper, built, resp, wrote, body, log_info, trace, panicv>>

\* the test of line 121 without its Disable half
WrapEnter_LoggerOnly(r) ==
    /\ pc[r] = "enter"
    /\ IF wrapper.opts.Logger = Nil
       THEN pc' = [pc EXCEPT ![r] = "plain_call"]
       ELSE pc' = [pc EXCEPT ![r] = "copy"]
    /\ UNCHANGED <<base, wrapper, built, entry, req, resp, wrote, body, log_info, trace, panicv>>

\* the test of line 121 without its Logger half
WrapEnter_DisableOnly(r) ==
    /\ pc[r] = "enter"
    /\ IF wrapper.opts.Disable
       THEN pc' = [pc EXCEPT ![r] = "plain_call"]
       ELSE pc' = [pc EXCEPT ![r] = "copy"]
    /\ UNCHANGED <<base, wrapper, built, entry, req, resp, wrote, body, log_info, trace, panicv>>

\* the test of line 121 reading the Disable flag of the base options as well
WrapEnter_BaseDisable(r) ==
    /\ pc[r] = "enter"
    /\ IF wrapper.opts.Logger = Nil \/ wrapper.opts.Disable \/ base.Disable
       THEN pc' = [pc EXCEPT ![r] = "plain_call"]
       ELSE pc' = [pc EXCEPT ![r] = "copy"]
    /\ UNCHANGED <<base, wrapper, built, entry, req, resp, wrote, body, log_info, trace, panicv>>

\* lines 116-125: without a logger, or disabled, the handler is just run
WrapEnter(r) ==
    /\ pc[r] = "enter"
    /\ IF wrapper.opts.Logger = Nil \/ wrapper.opts.Disable
       THEN pc' = [pc EXCEPT ![r] = "plain_call"]
       ELSE pc' = [pc EXCEPT ![r] = "copy"]
    /\ UNCHANGED <<base, wrapper, built, entry, req, resp, wrote, body, log_info, trace, panicv>>

\* lines 127-130, BodyCopy succeeds: body is a copy of the request's bytes
BodyCopyOk(r) ==
    /\ pc[r] = "copy"
    /\ body' = [body EXCEPT ![r] = [i \in DOMAIN entry[r].Body |-> entry[r].Body[i]]]
    /\ trace' = [trace EXCEPT ![r] = Append(@, [call |-> "BodyCopy", err |-> Nil])]
    /\ pc' = [pc EXCEPT ![r] = "prelog"]
    /\ UNCHANGED <<base, wrapper, built, entry, req, resp, wrote, log_info, panicv>>

\* a BodyCopy error that is dropped: the request goes on with an empty body
BodyCopyFail_Ignored(r, err) ==
    /\ pc[r] = "copy"
    /\ body' = [body EXCEPT ![r] = <<>>]
    /\ trace' = [trace EXCEPT ![r] = Append(@, [call |-> "BodyCopy", err |-> err])]
    /\ pc' = [pc EXCEPT ![r] = "prelog"]
    /\ UNCHANGED <<base, wrapper, built, entry, req, resp, wrote, log_info, panicv>>

\* lines 127-130, BodyCopy fails: panic with a message naming the error
BodyCopyFail(r, err) ==
    /\ pc[r] = "copy"
    /\ trace' = [trace EXCEPT ![r] = Append(@, [call |-> "BodyCopy", err |-> err])]
    /\ panicv' = [panicv EXCEPT ![r] =
                    [kind |-> "bodyread", msg |-> <<"Couldn't read body: ", err>>]]
    /\ pc' = [pc EXCEPT ![r] = "panicked"]
    /\ UNCHANGED <<base, wrapper, built, entry, req, resp, wrote, body, log_info>>

\* lines 138-149: the log_info map with its request fragment
RequestRecord(r, orig_url, hdrs, b) ==
    [request |-> [route |-> [method |-> req[r].Method,
                             route |-> req[r].Route,
                             path |-> EscapedPath(orig_url),
                             query |-> Query(orig_url)],
                  headers |-> hdrs,
                  body |-> b]]

\* a response stage that reads path and query from the live URL again
ResponseRecord_LiveURL(r, hdrs, b) ==
    [response |-> [status |-> resp[r].Status, headers |-> hdrs, body |-> b],
     request |-> [log_info[r].request EXCEPT
                     !.route.path = EscapedPath(req[r].URL),
                     !.route.query = Query(req[r].URL)]]

\* a response stage that logs the status the writer had before the handler ran
ResponseRecord_NoStatus(r, hdrs, b) ==
    [response |-> [status |-> NoResp.Status, headers |-> hdrs, body |-> b]] @@ log_info[r]

\* a response stage whose log_info map is shared by the requests in flight: it
\* adds its response fragment to the map some request in flight has built
ResponseRecord_SharedInfo(r, hdrs, b) ==
    LET w == CHOOSE x \in Workers : DOMAIN log_info[x] # {}
    IN  [response |-> [status |-> resp[r].Status, headers |-> hdrs, body |-> b]] @@ log_info[w]

\* lines 165-169: the response fragment is stored in the same log_info map
ResponseRecord(r, hdrs, b) ==
    [response |-> [status |-> resp[r].Status, headers |-> hdrs, body |-> b]] @@ log_info[r]

\* lines 132-158: filter the body, build log_info, encode it and log it
PreLog(r) ==
    /\ pc[r] = "prelog"
    /\ \E err \in EncodeOutcomes :
       LET orig_url == req[r].URL
           fb == filterBody(wrapper.opts, base, body[r])
           fh == filterHeaders(wrapper.opts, base, req[r].Header)
           info == RequestRecord(r, orig_url, fh.val, fb.val)
       IN  IF fb.panic
           THEN /\ panicv' = [panicv EXCEPT ![r] = [kind |-> "nil dereference"]]
                /\ pc' = [pc EXCEPT ![r] = "panicked"]
                /\ trace' = [trace EXCEPT ![r] = @ \o fb.calls]
                /\ UNCHANGED <<req, body, log_info>>
           ELSE IF fh.panic
           THEN /\ panicv' = [panicv EXCEPT ![r] = [kind |-> "nil dereference"]]
                /\ pc' = [pc EXCEPT ![r] = "panicked"]
                /\ body' = [body EXCEPT ![r] = fb.val]
                /\ req' = [req EXCEPT ![r].Header = fh.live]
                /\ trace' = [trace EXCEPT ![r] = @ \o fb.calls \o fh.calls]
                /\ UNCHANGED log_info
           ELSE /\ body' = [body EXCEPT ![r] = fb.val]
                /\ req' = [req EXCEPT ![r].Header = fh.live]
                /\ log_info' = [log_info EXCEPT ![r] = info]
                /\ trace' = [trace EXCEPT ![r] =
                                LogDebug(@ \o fb.calls \o fh.calls \o <<EncodeCall(err)>>,
                                         Sink(r), Ctx(r),
                                         "Received request:", Encode(info, err))]
                /\ pc' = [pc EXCEPT ![r] = "call"]
                /\ UNCHANGED panicv
    /\ UNCHANGED <<base, wrapper, built, entry, resp, wrote>>

\* line 123 or line 160: next(ctx) is called
CallNext(r) ==
    /\ pc[r] \in {"plain_call", "call"}
    /\ trace' = [trace EXCEPT ![r] = Append(@, [call |-> "next", ctx |-> Ctx(r)])]
    /\ pc' = [pc EXCEPT ![r] = IF pc[r] = "call" THEN "handler" ELSE "plain_handler"]
    /\ UNCHANGED <<base, wrapper, built, entry, req, resp, wrote, body, log_info, panicv>>

\* what the downstream handler does to the request and the response writer
HandlerEffects(r, hb) ==
    /\ req' = [req EXCEPT ![r] =
                 IF hb.mutate
                 THEN [@ EXCEPT !.URL = HandlerURL(@), !.Header = HandlerHeader(@)]
                 ELSE @]
    /\ resp' = [resp EXCEPT ![r] = hb.resp]
    /\ wrote' = [wrote EXCEPT ![r] = hb.resp]

\* the downstream handler returns; after line 123 the wrapped handler returns too
HandlerReturn(r, hb) ==
    /\ pc[r] \in {"plain_handler", "handler"}
    /\ HandlerEffects(r, hb)
    /\ trace' = [trace EXCEPT ![r] = Append(@, [call |-> "return"])]
    /\ pc' = [pc EXCEPT ![r] = IF pc[r] = "handler" THEN "postlog" ELSE "done"]
    /\ UNCHANGED <<base, wrapper, built, entry, body, log_info, panicv>>

\* a wrapped handler that recovers the panic of the downstream handler and
\* goes on to its response stage
HandlerPanic_Recovered(r, hb) ==
    /\ pc[r] \in {"plain_handler", "handler"}
    /\ HandlerEffects(r, hb)
    /\ \E v \in PanicValues :
          trace' = [trace EXCEPT ![r] = Append(@, [call |-> "panic", value |-> v])]
    /\ pc' = [pc EXCEPT ![r] = IF pc[r] = "handler" THEN "postlog" ELSE "done"]
    /\ UNCHANGED <<base, wrapper, built, entry, body, log_info, panicv>>

\* the downstream handler panics: nothing in Wrap recovers, the panic goes up
HandlerPanic(r, hb) ==
    /\ pc[r] \in {"plain_handler", "handler"}
    /\ HandlerEffects(r, hb)
    /\ \E v \in PanicValues :
          /\ trace' = [trace EXCEPT ![r] = Append(@, [call |-> "panic", value |-> v])]
          /\ panicv' = [panicv EXCEPT ![r] = [kind |-> "handler", value |-> v]]
    /\ pc' = [pc EXCEPT ![r] = "panicked"]
    /\ UNCHANGED <<base, wrapper, built, entry, body, log_info>>

\* lines 162-176: filter the response copy, add the response fragment to the
\* same log_info, encode it again and log it
PostLog(r) ==
    /\ pc[r] = "postlog"
    /\ \E err \in EncodeOutcomes :
       LET writer == resp[r]
           copy == [i \in DOMAIN writer.Body |-> writer.Body[i]]
           fb == filterBody(wrapper.opts, base, copy)
           fh == filterHeaders(wrapper.opts, base, writer.Header)
           info == ResponseRecord(r, fh.val, fb.val)
       IN  IF fb.panic
           THEN /\ panicv' = [panicv EXCEPT ![r] = [kind |-> "nil dereference"]]
                /\ pc' = [pc EXCEPT ![r] = "panicked"]
                /\ trace' = [trace EXCEPT ![r] = @ \o fb.calls]
                /\ UNCHANGED <<resp, body, log_info>>
           ELSE IF fh.panic
           THEN /\ panicv' = [panicv EXCEPT ![r] = [kind |-> "nil dereference"]]
                /\ pc' = [pc EXCEPT ![r] = "panicked"]
                /\ body' = [body EXCEPT ![r] = fb.val]
                /\ resp' = [resp EXCEPT ![r].Header = fh.live]
                /\ trace' = [trace EXCEPT ![r] = @ \o fb.calls \o fh.calls]
                /\ UNCHANGED log_info
           ELSE /\ body' = [body EXCEPT ![r] = fb.val]
                /\ resp' = [resp EXCEPT ![r].Header = fh.live]
                /\ log_info' = [log_info EXCEPT ![r] = info]
                /\ trace' = [trace EXCEPT ![r] =
                                LogDebug(@ \o fb.calls \o fh.calls \o <<EncodeCall(err)>>,
                                         Sink(r), Ctx(r),
                                         "Sent response:", Encode(info, err))]
                /\ pc' = [pc EXCEPT ![r] = "done"]
                /\ UNCHANGED panicv
    /\ UNCHANGED <<base, wrapper, built, entry, req, wrote>>

\* the request is over and its worker is free again
Retire(r) ==
    /\ pc[r] \in {"done", "panicked"}
    /\ pc' = [pc EXCEPT ![r] = "idle"]
    /\ entry' = [entry EXCEPT ![r] = NoEntry]
    /\ req' = [req EXCEPT ![r] = NoReq]
    /\ resp' = [resp EXCEPT ![r] = NoResp]
    /\ wrote' = [wrote EXCEPT ![r] = NoResp]
    /\ body' = [body EXCEPT ![r] = <<>>]
    /\ log_info' = [log_info EXCEPT ![r] = <<>>]
    /\ trace' = [trace EXCEPT ![r] = <<>>]
    /\ panicv' = [panicv EXCEPT ![r] = NoPanic]
    /\ UNCHANGED <<base, wrapper, built>>

Configure ==
    \/ \E args \in ArgLists : NewWrapper(args)
    \/ \E l \in SetLoggers : SetLogger(l)
    \/ \E o \in OverrideInputs : MutateOverride(o)

\* worker r serves requests drawn from rqs and bds with handlers drawn from hbs
ServeWith(r, rqs, bds, hbs) ==
    \/ \E rq \in rqs, b \in bds : StartRequest(r, rq, b)
    \/ WrapEnter(r)
    \/ BodyCopyOk(r)
    \/ \E err \in BodyErrors : BodyCopyFail(r, err)
    \/ PreLog(r)
    \/ CallNext(r)
    \/ \E hb \in hbs : HandlerReturn(r, hb)
    \/ \E hb \in hbs : HandlerPanic(r, hb)
    \/ PostLog(r)
    \/ Retire(r)

Serve(r) == ServeWith(r, Requests, Bodies, Behaviours)

\* Spec: the middleware is configured and reconfigured between requests, which
\* are served one at a time
Next == Configure \/ \E r \in Sequential : Serve(r)

Spec == Init /\ [][Next]_vars

\* SpecConc: a wrapper derived at setup time serves the requests of all workers
\* concurrently, their steps interleaved
ConcMwArgs ==
    {a \in MwArgs : /\ a.kind = "opts" /\ a.opts.Logger # Nil /\ ~a.opts.Disable
                    /\ (a.opts.LogBodyFilter = Nil <=> a.opts.LogHeadersFilter = Nil)}
ConcArgLists ==
    {<<>>} \cup
    {<<[kind |-> "opts", opts |-> o]>> :
        o \in {x \in OverrideInputs :
                 /\ ~x.Disable
                 /\ (x.LogBodyFilter = Nil <=> x.LogHeadersFilter = Nil)
                 /\ (x.LogBodyFilter = Nil <=> x.Logger = Nil)}}
ConcBodies == {[i \in 1..MaxBody |-> 1 + ((i + 1) % 2)]}
ConcBehaviours == {hb \in Behaviours : hb.mutate}
\* the requests worker r serves: neighbouring workers serve different requests
ConcRequests(r) == {rq \in Requests : (rq.Method = "GET") <=> (r % 2 = 1)}

InitConc ==
    /\ \E a \in ConcMwArgs, args \in ConcArgLists :
          /\ base = NewMiddleware(a)
          /\ wrapper = NewWrapperFn(base, args)
          /\ built = Built(base, args)
    /\ pc = [r \in Workers |-> "idle"]
    /\ entry = [r \in Workers |-> NoEntry]
    /\ req = [r \in Workers |-> NoReq]
    /\ resp = [r \in Workers |-> NoResp]
    /\ wrote = [r \in Workers |-> NoResp]
    /\ body = [r \in Workers |-> <<>>]
    /\ log_info = [r \in Workers |-> <<>>]
    /\ trace = [r \in Workers |-> <<>>]
    /\ panicv = [r \in Workers |-> NoPanic]

NextConc == \E r \in Workers : ServeWith(r, ConcRequests(r), ConcBodies, ConcBehaviours)

SpecConc == InitConc /\ [][NextConc]_vars

----------------------------------------------------------------------------
(* Properties *)

Received == "Received request:"
Sent == "Sent response:"

Finished(r) == pc[r] \in {"done", "panicked"}
\* the test of line 121 fails: the request is logged
LoggingOn == wrapper.kind = "wrapper" /\ wrapper.opts.Logger # Nil /\ ~wrapper.opts.Disable
\* the kinds of the calls of a request, filter and encoder calls apart, in order
Kinds(r) ==
    LET t == SelectSeq(trace[r],
                       LAMBDA e : e.call \notin {"FilterBody", "FilterHeaders", "Encode"})
    IN  [i \in DOMAIN t |-> t[i].call]
\* the log calls of a request whose text was encoded
Docs(r) == SelectSeq(LogCalls(r), LAMBDA e : e.msg # NoText)
Prefixes(r) == [i \in DOMAIN LogCalls(r) |-> LogCalls(r)[i].prefix]
\* the live request as it arrived
Arrived(r) == [f \in DOMAIN req[r] |-> entry[r][f]]

\* C1 as stated: every request handled with logging enabled, however it ends,
\* has exactly the two log calls, "Received request:" then "Sent response:".
C1_ExactlyTwoAlways ==
    \A r \in Workers :
        (LoggingOn /\ Finished(r)) => Prefixes(r) = <<Received, Sent>>

\* C1 amended: with logging enabled no stage is logged more than once, the
\* "Received request:" call comes strictly before the downstream handler starts
\* and the "Sent response:" call strictly after it returns; a request whose
\* wrapped handler returns normally has made exactly these two log calls.
C1_TwoStageOrder ==
    \A r \in Workers :
        (LoggingOn /\ pc[r] # "idle") =>
            /\ Len(WithPrefix(r, Received)) <= 1
            /\ Len(WithPrefix(r, Sent)) <= 1
            /\ \A i \in DOMAIN LogCalls(r) : LogCalls(r)[i].prefix \in {Received, Sent}
            /\ \A i \in DOMAIN trace[r] :
                  trace[r][i].call = "next" =>
                      \E j \in 1..(i - 1) :
                          trace[r][j].call = "LogDebug" /\ trace[r][j].prefix = Received
            /\ \A i \in DOMAIN trace[r] :
                  (trace[r][i].call = "LogDebug" /\ trace[r][i].prefix = Received) =>
                      \A j \in 1..(i - 1) : trace[r][j].call \notin {"next", "return", "panic"}
            /\ \A i \in DOMAIN trace[r] :
                  (trace[r][i].call = "LogDebug" /\ trace[r][i].prefix = Sent) =>
                      \E j \in 1..(i - 1) : trace[r][j].call = "return"
            /\ pc[r] = "done" =>
                  Kinds(r) = <<"BodyCopy", "LogDebug", "next", "return", "LogDebug">>
                  /\ Prefixes(r) = <<Received, Sent>>

\* a logged request has completed both stages
C1_Witness ==
    \E r \in Workers : LoggingOn /\ pc[r] = "done" /\ Prefixes(r) = <<Received, Sent>>

\* C2: NewWrapper, whenever it may be called, returns nil for every argument
\* list whose resolved options have Disable set; and a request through a
\* wrapper whose options have Disable set at request time makes no log call,
\* takes no body copy, and runs the downstream handler once on the untouched
\* request, its response left as the handler wrote it.
C2_Disabled ==
    /\ Quiescent =>
          \A args \in ArgLists :
              ResolveOpt(base, args).opt.Disable => NewWrapperFn(base, args) = NilWrapper
    /\ \A r \in Workers :
          (wrapper.kind = "wrapper" /\ wrapper.opts.Disable /\ pc[r] \notin {"idle", "enter"}) =>
              /\ Count(r, "LogDebug") = 0
              /\ Count(r, "BodyCopy") = 0
              /\ panicv[r].kind \in {"none", "handler"}
              /\ resp[r] = wrote[r]
              /\ (pc[r] \in {"plain_call", "plain_handler"} => req[r] = Arrived(r))
              /\ (Finished(r) =>
                    /\ Count(r, "next") = 1
                    /\ \A i \in DOMAIN trace[r] :
                          trace[r][i].call = "next" => trace[r][i].ctx = Ctx(r))

\* a request served to the end by a wrapper disabled after it was derived,
\* though it has a logger
C2_Witness ==
    \E r \in Workers :
        /\ wrapper.kind = "wrapper" /\ wrapper.opts.Disable /\ wrapper.opts.Logger # Nil
        /\ pc[r] = "done" /\ Count(r, "next") = 1

\* C3: every request that does not end in a body-read failure has invoked the
\* downstream handler exactly once, with the context it received.
C3_DownstreamExactlyOnce ==
    \A r \in Workers :
        (Finished(r) /\ panicv[r].kind # "bodyread") =>
            /\ Count(r, "next") = 1
            /\ \A i \in DOMAIN trace[r] :
                  trace[r][i].call = "next" => trace[r][i].ctx = Ctx(r)

\* C4 as stated: when NewMiddleware was given no Logger (so that the base logger
\* is the default one) and the wrapper was derived with no override or with an
\* override without a Logger, a served request has made no sink call and has run
\* the downstream handler once.
C4_NoSinkCall ==
    \A r \in Workers :
        (/\ base.Logger = DefaultStdout
         /\ wrapper.kind = "wrapper"
         /\ (wrapper.own \/ wrapper.opts.Logger = Nil)
         /\ pc[r] = "done") =>
            Count(r, "LogDebug") = 0 /\ Count(r, "next") = 1

\* C4 amended: NewMiddleware always leaves a base logger (the default stdout
\* logger when it was given none), a wrapper derived with no override inherits
\* it and logs both records of a served request to it; only a wrapper whose own
\* options carry no Logger makes no sink call and takes no body copy, and it
\* runs the downstream handler once on the untouched request.
C4_NoLoggerNoSink ==
    /\ base.Logger # Nil
    /\ (wrapper.kind = "wrapper" /\ wrapper.own /\ base.Logger = DefaultStdout) =>
          /\ wrapper.opts.Logger = DefaultStdout
          /\ \A r \in Workers :
                pc[r] = "done" =>
                    /\ Prefixes(r) = <<Received, Sent>>
                    /\ \A i \in DOMAIN LogCalls(r) : LogCalls(r)[i].logger = DefaultStdout
    /\ \A r \in Workers :
          (wrapper.kind = "wrapper" /\ wrapper.opts.Logger = Nil /\ pc[r] \notin {"idle", "enter"}) =>
              /\ Count(r, "LogDebug") = 0
              /\ Count(r, "BodyCopy") = 0
              /\ panicv[r].kind \in {"none", "handler"}
              /\ resp[r] = wrote[r]
              /\ (pc[r] \in {"plain_call", "plain_handler"} => req[r] = Arrived(r))
              /\ (Finished(r) => Count(r, "next") = 1)

\* under the default base logger, a request served by a wrapper whose override
\* carries filters but no Logger
C4_Witness ==
    \E r \in Workers :
        /\ base.Logger = DefaultStdout
        /\ wrapper.kind = "wrapper" /\ ~wrapper.own /\ wrapper.opts.Logger = Nil
        /\ ~wrapper.opts.Disable
        /\ pc[r] = "done" /\ Count(r, "next") = 1 /\ Count(r, "LogDebug") = 0

\* C5: a request whose body copy failed has panicked with a message naming the
\* error, has not invoked the downstream handler, has made no log call and has
\* called BodyCopy once.
C5_BodyReadFatal ==
    \A r \in Workers :
        \A i \in DOMAIN trace[r] :
            (trace[r][i].call = "BodyCopy" /\ trace[r][i].err # Nil) =>
                /\ pc[r] = "panicked"
                /\ panicv[r] = [kind |-> "bodyread",
                                msg |-> <<"Couldn't read body: ", trace[r][i].err>>]
                /\ Count(r, "next") = 0
                /\ Count(r, "LogDebug") = 0
                /\ Count(r, "BodyCopy") = 1

\* a logged request whose body copy failed
C5_Witness ==
    \E r \in Workers :
        /\ LoggingOn /\ pc[r] = "panicked" /\ panicv[r].kind = "bodyread"
        /\ \E i \in DOMAIN trace[r] : trace[r][i].call = "BodyCopy" /\ trace[r][i].err # Nil

\* the downstream handler of the request has been entered and has ended
HandlerRan(r) == \E i \in DOMAIN trace[r] : trace[r][i].call \in {"return", "panic"}

\* C6: logging leaves the live headers alone: until the downstream handler has
\* run the live request headers are the headers that arrived, afterwards they
\* are what the handler made of them, and the live response headers are the
\* ones the handler wrote.
C6_LiveHeadersUntouched ==
    \A r \in Workers :
        /\ resp[r].Header = wrote[r].Header
        /\ ~HandlerRan(r) => req[r].Header = entry[r].Header
        /\ HandlerRan(r) =>
              req[r].Header \in {entry[r].Header, HandlerHeader(entry[r].Header)}

\* both stages logged by a wrapper whose headers filter deletes keys and
\* rewrites values: the logged headers differ from the live ones
C6_Witness ==
    \E r \in Workers :
        /\ pc[r] = "done" /\ wrapper.opts.LogHeadersFilter = "strip"
        /\ Len(Docs(r)) = 2
        /\ Docs(r)[2].msg.request.headers # entry[r].Header
        /\ Docs(r)[2].msg.response.headers # resp[r].Header
        /\ req[r].Header = entry[r].Header

\* the request fragment the code logs for a request that arrived as e
ArrivedFragment(e) ==
    [route |-> [method |-> e.Method, route |-> e.Route,
                path |-> EscapedPath(e.URL), query |-> Query(e.URL)],
     headers |-> filterHeaders(wrapper.opts, base, e.Header).val,
     body |-> filterBody(wrapper.opts, base, e.Body).val]

\* C7: every record logged for a request (every log call whose text was
\* encoded) carries the request fragment built from the request as it arrived,
\* so the fragment of "Sent response:" equals the one of "Received request:"
\* whatever the handler did to its request.
C7_RequestFragmentStable ==
    \A r \in Workers :
        /\ \A i \in DOMAIN Docs(r) :
              Docs(r)[i].msg.request = ArrivedFragment(entry[r])
        /\ \A i, j \in DOMAIN Docs(r) :
              Docs(r)[i].msg.request = Docs(r)[j].msg.request

\* both records logged although the handler rewrote its URL and its headers
C7_Witness ==
    \E r \in Workers :
        /\ pc[r] = "done" /\ Prefixes(r) = <<Received, Sent>> /\ Len(Docs(r)) = 2
        /\ req[r].URL # entry[r].URL /\ req[r].Header # entry[r].Header
        /\ Query(req[r].URL) # Query(entry[r].URL)

\* C8: a wrapper derived with no override applies no filter: no request through
\* it panics in a filter call, and a served request has both records, logging
\* the copied bodies and the copies of the live headers unchanged.
C8_NoOverrideIdentity ==
    \A r \in Workers :
        (wrapper.kind = "wrapper" /\ wrapper.own /\ wrapper.opts.Logger # Nil) =>
            /\ panicv[r].kind \in {"none", "bodyread", "handler"}
            /\ pc[r] = "done" =>
                  /\ Prefixes(r) = <<Received, Sent>>
                  /\ \A i \in DOMAIN Docs(r) :
                        /\ Docs(r)[i].msg.request.body = entry[r].Body
                        /\ Docs(r)[i].msg.request.headers = entry[r].Header
                        /\ Docs(r)[i].prefix = Sent =>
                              /\ Docs(r)[i].msg.response.body = wrote[r].Body
                              /\ Docs(r)[i].msg.response.headers = wrote[r].Header

\* C9: every wrapper NewWrapper returns has a logger: an override that leaves
\* Logger unset inherits the base logger.
C9_EffectiveLogger ==
    [][\A args \in ArgLists :
          (NewWrapper(args) /\ wrapper'.kind = "wrapper") => wrapper'.opts.Logger # Nil]_vars

\* C10: with no filter configured, the "Sent response:" record (whenever its
\* text was encoded) carries the status, headers and body the downstream handler
\* wrote, and the "Received request:" record carries no response fragment.
C10_ResponseFragment ==
    \A r \in Workers :
        (/\ wrapper.opts.LogBodyFilter = Nil /\ wrapper.opts.LogHeadersFilter = Nil
         /\ base.LogBodyFilter = Nil /\ base.LogHeadersFilter = Nil) =>
            \A i \in DOMAIN Docs(r) :
                /\ Docs(r)[i].prefix = Received =>
                      DOMAIN Docs(r)[i].msg = {"request"}
                /\ Docs(r)[i].prefix = Sent =>
                      /\ DOMAIN Docs(r)[i].msg = {"request", "response"}
                      /\ Docs(r)[i].msg.response =
                            [status |-> wrote[r].Status, headers |-> wrote[r].Header,
                             body |-> wrote[r].Body]

\* an unfiltered request answered 404 with a body
C10_Witness ==
    \E r \in Workers :
        /\ wrapper.opts.LogBodyFilter = Nil /\ wrapper.opts.LogHeadersFilter = Nil
        /\ base.LogBodyFilter = Nil /\ base.LogHeadersFilter = Nil
        /\ pc[r] = "done" /\ Prefixes(r) = <<Received, Sent>>
        /\ wrote[r].Status = 404 /\ wrote[r].Body # <<>>
        /\ Len(Docs(r)) = 2 /\ Docs(r)[2].msg.response.status = 404

\* C11: a panic of the downstream handler ends the request: the wrapped handler
\* panics with the very value the downstream handler raised, no call of any
\* kind follows the panic, and with logging enabled the request has made
\* exactly one log call, the "Received request:" one.
C11_HandlerFailurePropagates ==
    \A r \in Workers :
        \A i \in DOMAIN trace[r] :
            trace[r][i].call = "panic" =>
                /\ i = Len(trace[r])
                /\ pc[r] = "panicked"
                /\ panicv[r] = [kind |-> "handler", value |-> trace[r][i].value]
                /\ Count(r, "next") = 1
                /\ LoggingOn => Prefixes(r) = <<Received>>

\* a logged request whose downstream handler panicked
C11_Witness ==
    \E r \in Workers :
        /\ LoggingOn /\ pc[r] = "panicked" /\ panicv[r].kind = "handler"
        /\ Count(r, "panic") = 1 /\ Prefixes(r) = <<Received>>

\* C12: an error returned by Encode, at either stage, is dropped: the log call
\* of that stage follows at once, with the empty text the buffer holds, nothing
\* is raised by the wrapped handler on its account, the downstream handler is
\* called once, and a request whose downstream handler returns ends normally
\* with its two log calls.
C12_EncodeFailureNotSurfaced ==
    \A r \in Workers :
        \A i \in DOMAIN trace[r] :
            (trace[r][i].call = "Encode" /\ trace[r][i].err # Nil) =>
                /\ i < Len(trace[r])
                /\ trace[r][i + 1].call = "LogDebug"
                /\ trace[r][i + 1].msg = NoText
                /\ trace[r][i + 1].ctx = Ctx(r)
                /\ panicv[r].kind \in {"none", "handler"}
                /\ pc[r] \in {"call", "handler", "postlog", "done", "panicked"}
                /\ pc[r] \in {"handler", "postlog", "done", "panicked"} => Count(r, "next") = 1
                /\ (pc[r] = "panicked" => Count(r, "panic") = 1)
                /\ pc[r] = "done" =>
                      /\ Kinds(r) = <<"BodyCopy", "LogDebug", "next", "return", "LogDebug">>
                      /\ Prefixes(r) = <<Received, Sent>>
                      /\ panicv[r] = NoPanic

\* a request that ended normally although Encode failed at both stages
C12_Witness ==
    \E r \in Workers :
        /\ pc[r] = "done" /\ Prefixes(r) = <<Received, Sent>> /\ Docs(r) = <<>>
        /\ Len(SelectSeq(trace[r], LAMBDA e : e.call = "Encode" /\ e.err # Nil)) = 2
        /\ Count(r, "next") = 1

\* the response fragment the code logs for what the handler of r wrote
WrittenFragment(r) ==
    [status |-> wrote[r].Status,
     headers |-> filterHeaders(wrapper.opts, base, wrote[r].Header).val,
     body |-> filterBody(wrapper.opts, base, wrote[r].Body).val]

\* C13: with the requests of several workers interleaved through one wrapper,
\* no step of a request writes the wrapper, its options or the base
\* configuration; every record of a request is logged with that request's
\* context and carries the fragments of that request's own request and
\* response; and for each request its "Received request:" call comes before its
\* downstream handler starts and its "Sent response:" call after that handler
\* returned.
C13_ConcurrentRequestsIsolated ==
    /\ [][base' = base /\ wrapper' = wrapper]_vars
    /\ [](\A r \in Workers :
            /\ \A i \in DOMAIN LogCalls(r) : LogCalls(r)[i].ctx = Ctx(r)
            /\ \A i \in DOMAIN Docs(r) :
                  /\ Docs(r)[i].msg.request = ArrivedFragment(entry[r])
                  /\ Docs(r)[i].prefix = Received => DOMAIN Docs(r)[i].msg = {"request"}
                  /\ Docs(r)[i].prefix = Sent =>
                        /\ DOMAIN Docs(r)[i].msg = {"request", "response"}
                        /\ Docs(r)[i].msg.response = WrittenFragment(r)
            /\ \A i \in DOMAIN trace[r] :
                  /\ (trace[r][i].call = "LogDebug" /\ trace[r][i].prefix = Received) =>
                        \A j \in 1..(i - 1) : trace[r][j].call \notin {"next", "return", "panic"}
                  /\ (trace[r][i].call = "LogDebug" /\ trace[r][i].prefix = Sent) =>
                        \E j \in 1..(i - 1) : trace[r][j].call = "return"
                  /\ (trace[r][i].call = "next" /\ LoggingOn) =>
                        \E j \in 1..(i - 1) :
                            trace[r][j].call = "LogDebug" /\ trace[r][j].prefix = Received
            /\ Len(WithPrefix(r, Received)) <= 1 /\ Len(WithPrefix(r, Sent)) <= 1)

\* two different requests in flight at once, one inside its downstream handler
\* and one about to log its response, each with its own record logged
C13_Witness ==
    \E r1, r2 \in Workers :
        /\ r1 # r2 /\ pc[r1] = "handler" /\ pc[r2] = "postlog"
        /\ entry[r1] # entry[r2]
        /\ Len(Docs(r1)) = 1 /\ Len(Docs(r2)) = 1
        /\ Docs(r1)[1].msg # Docs(r2)[1].msg

\* f applied n times in succession to x
BodyFilterTimes(f, n, x) ==
    IF n = 1 THEN ApplyBodyFilter(f, x) ELSE ApplyBodyFilter(f, ApplyBodyFilter(f, x))
HeadersFilterTimes(f, n, x) ==
    IF n = 1 THEN ApplyHeadersFilter(f, x) ELSE ApplyHeadersFilter(f, ApplyHeadersFilter(f, x))

\* C14: for the body and for the headers alike, at the request stage and at
\* the response stage: when the wrapper's own options carry a filter, every
\* record logs that filter's output on the copied input, the filter applied
\* once when the base configuration has no filter of that kind and twice in
\* succession when it has one, and the filter is called that many times at
\* each stage that is logged.
C14_FilterPolicy ==
    \A r \in Workers :
        /\ wrapper.opts.LogBodyFilter # Nil =>
              LET f == wrapper.opts.LogBodyFilter
                  n == IF base.LogBodyFilter = Nil THEN 1 ELSE 2
              IN  /\ panicv[r].kind # "nil dereference" =>
                        Count(r, "FilterBody") = n * Len(LogCalls(r))
                  /\ \A i \in DOMAIN Docs(r) :
                        /\ Docs(r)[i].msg.request.body = BodyFilterTimes(f, n, entry[r].Body)
                        /\ Docs(r)[i].prefix = Sent =>
                              Docs(r)[i].msg.response.body =
                                  BodyFilterTimes(f, n, wrote[r].Body)
        /\ wrapper.opts.LogHeadersFilter # Nil =>
              LET f == wrapper.opts.LogHeadersFilter
                  n == IF base.LogHeadersFilter = Nil THEN 1 ELSE 2
              IN  /\ panicv[r].kind # "nil dereference" =>
                        Count(r, "FilterHeaders") = n * Len(LogCalls(r))
                  /\ \A i \in DOMAIN Docs(r) :
                        /\ Docs(r)[i].msg.request.headers =
                              HeadersFilterTimes(f, n, entry[r].Header)
                        /\ Docs(r)[i].prefix = Sent =>
                              Docs(r)[i].msg.response.headers =
                                  HeadersFilterTimes(f, n, wrote[r].Header)

\* both stages logged with a base filter and an own filter of each kind, where
\* two applications of the own filter give another result than one
C14_Witness ==
    \E r \in Workers :
        /\ wrapper.opts.LogBodyFilter # Nil /\ base.LogBodyFilter # Nil
        /\ wrapper.opts.LogHeadersFilter # Nil /\ base.LogHeadersFilter # Nil
        /\ pc[r] = "done" /\ Len(Docs(r)) = 2
        /\ Count(r, "FilterBody") = 4 /\ Count(r, "FilterHeaders") = 4
        /\ Docs(r)[2].msg.request.body # ApplyBodyFilter(wrapper.opts.LogBodyFilter, entry[r].Body)
        /\ Docs(r)[2].msg.response.headers #
              ApplyHeadersFilter(wrapper.opts.LogHeadersFilter, wrote[r].Header)

\* C15: a wrapper derived with no override holds the logger the base
\* configuration had when NewWrapper was called, and every log call of every
\* request it handles goes to that logger, whatever SetLogger has made of the
\* base logger since; a wrapper derived with no override from now on gets the
\* base logger of now.
C15_InheritedLoggerFixed ==
    /\ (wrapper.kind = "wrapper" /\ wrapper.own) =>
          /\ built.inherited # Nil
          /\ wrapper.opts.Logger = built.inherited
          /\ \A r \in Workers :
                /\ \A i \in DOMAIN LogCalls(r) : LogCalls(r)[i].logger = built.inherited
                /\ (pc[r] = "done" => Prefixes(r) = <<Received, Sent>>)
    /\ Quiescent =>
          /\ NewWrapperFn(base, <<>>).opts.Logger = base.Logger
          /\ Built(base, <<>>).inherited = base.Logger

\* a request logged by a wrapper derived with no override before SetLogger
\* replaced the base logger: both records went to the old logger
C15_Witness ==
    \E r \in Workers :
        /\ wrapper.kind = "wrapper" /\ wrapper.own
        /\ base.Logger \in SetLoggers /\ built.inherited # base.Logger
        /\ pc[r] = "done" /\ Prefixes(r) = <<Received, Sent>>
        /\ \A i \in DOMAIN LogCalls(r) : LogCalls(r)[i].logger = built.inherited

\* C16: the options a wrapper was built with decide how it logs: whatever is
\* written to the override object after NewWrapper returned, a request takes
\* the logging path exactly when the object carried a Logger and no Disable
\* flag at that time, its log calls go to that Logger, and its records carry
\* the body and the headers filtered as the filters of that time filter them.
C16_OverrideConsumedOnce ==
    \A r \in Workers :
        (wrapper.kind = "wrapper" /\ pc[r] \notin {"idle", "enter"}) =>
            LET o == built.opts
                on == o.Logger # Nil /\ ~o.Disable
            IN  /\ on => /\ pc[r] \notin {"plain_call", "plain_handler"}
                         /\ (pc[r] = "done" => Prefixes(r) = <<Received, Sent>>)
                /\ ~on => /\ pc[r] # "copy"
                          /\ Count(r, "BodyCopy") = 0 /\ Count(r, "LogDebug") = 0
                /\ \A i \in DOMAIN LogCalls(r) : LogCalls(r)[i].logger = o.Logger
                /\ \A i \in DOMAIN Docs(r) :
                      /\ Docs(r)[i].msg.request.body = filterBody(o, base, entry[r].Body).val
                      /\ Docs(r)[i].msg.request.headers =
                            filterHeaders(o, base, entry[r].Header).val

\* C17: whatever filters the base configuration and the wrapper's own options
\* carry, every filter call of every request goes through the wrapper's own
\* options and runs the function they carry: the body filter and the headers
\* filter of the base configuration are never run.
C17_BaseFilterNeverCalled ==
    \A r \in Workers :
        \A i \in DOMAIN trace[r] :
            /\ trace[r][i].call = "FilterBody" =>
                  /\ trace[r][i].via = "opts"
                  /\ trace[r][i].fn = wrapper.opts.LogBodyFilter
                  /\ trace[r][i].fn \notin {Nil, base.LogBodyFilter}
            /\ trace[r][i].call = "FilterHeaders" =>
                  /\ trace[r][i].via = "opts"
                  /\ trace[r][i].fn = wrapper.opts.LogHeadersFilter
                  /\ trace[r][i].fn \notin {Nil, base.LogHeadersFilter}

\* both stages logged where the base configuration and the wrapper's own
\* options carry both filters: eight filter calls, none of a base filter
C17_Witness ==
    \E r \in Workers :
        /\ base.LogBodyFilter # Nil /\ base.LogHeadersFilter # Nil
        /\ wrapper.opts.LogBodyFilter # Nil /\ wrapper.opts.LogHeadersFilter # Nil
        /\ pc[r] = "done"
        /\ Count(r, "FilterBody") + Count(r, "FilterHeaders") = 8
        /\ \A i \in DOMAIN trace[r] :
              trace[r][i].call \in {"FilterBody", "FilterHeaders"} => trace[r][i].via = "opts"

\* C18: the Disable flag of the base configuration decides nothing.  Whatever
\* it is, NewWrapper with no override returns a wrapper, whose own options are
\* not disabled; NewWrapper returns nil exactly when the options it resolved
\* have Disable set; a request goes the unlogged way exactly when the wrapper's
\* own options have no Logger or have Disable set; and every request that a
\* wrapper derived with no override serves to the end has made both log calls.
C18_BaseDisableIgnored ==
    /\ Quiescent =>
          /\ NewWrapperFn(base, <<>>).kind = "wrapper"
          /\ ~NewWrapperFn(base, <<>>).opts.Disable
          /\ \A args \in ArgLists :
                NewWrapperFn(base, args) = NilWrapper <=> ResolveOpt(base, args).opt.Disable
    /\ \A r \in Workers :
          /\ pc[r] \in {"plain_call", "plain_handler"} =>
                (wrapper.opts.Logger = Nil \/ wrapper.opts.Disable)
          /\ pc[r] \in {"copy", "prelog", "call", "handler", "postlog"} =>
                (wrapper.opts.Logger # Nil /\ ~wrapper.opts.Disable)
          /\ (wrapper.kind = "wrapper" /\ wrapper.own) =>
                /\ ~wrapper.opts.Disable
                /\ pc[r] \notin {"plain_call", "plain_handler"}
                /\ pc[r] = "done" =>
                      /\ Prefixes(r) = <<Received, Sent>>
                      /\ Count(r, "BodyCopy") = 1 /\ Count(r, "next") = 1

\* under a base configuration with Disable set, a wrapper derived with no
\* override has served a request and logged both stages
C18_Witness ==
    \E r \in Workers :
        /\ base.Disable /\ wrapper.kind = "wrapper" /\ wrapper.own
        /\ pc[r] = "done" /\ Prefixes(r) = <<Received, Sent>>

====
